---------------------------- MODULE Spec2Model ----------------------------
(***************************************************************************)
(* A model of src/app.py, the document gathering toolkit: the search      *)
(* client (find_documents / find_urls), the per-URL download-and-answer   *)
(* loop (process_file_questions, driven by runner), the answerer          *)
(* (pdf_answerer), the text extractor (process_file / read_pdf), the      *)
(* page-spec parser (numbers_split) and the page extractor (split_pdf).   *)
(*                                                                         *)
(* Python strings that the code takes apart are sequences here: a URL is  *)
(* the sequence of its "/"-separated parts after the scheme (a trailing   *)
(* "/" leaves an empty last part), a page spec is a sequence of           *)
(* characters, a document's bytes and an answer's text are sequences of   *)
(* tokens, and the empty string is <<>>.                                  *)
(***************************************************************************)
EXTENDS Integers, Sequences, FiniteSets, TLC

VARIABLES
    pc,          \* where runner / process_file_questions stands
    apiResponse, \* what the search provider answered to requests.get (line 111)
    candidates,  \* find_documents' result, the `urls` of process_file_questions
    i,           \* 1-based position of the for loop of line 191 in `urls`
    links,       \* line 186
    summaries,   \* line 187
    tempExists,  \* whether the directory 'temp' exists
    files,       \* the files of 'temp': file name -> bytes
    response,    \* the local `response.content` of line 193
    summary,     \* the local `summary` of line 199
    exc,         \* the exception that left runner, "none" while there is none
    fetchLog,    \* per candidate visited so far, how requests.get ended
    kept,        \* positions in `urls` of the entries appended so far
    produced,    \* the calls of pdf_answerer so far: position in `urls`, the step
                 \* that failed, how the call ended
    pfInput,     \* process_file: the `file` argument
    pfResult,    \* process_file: how the call ended
    nsInput,     \* numbers_split: the argument s
    nsResult,    \* numbers_split: the returned list
    spInput,     \* split_pdf: the source's page count and page_numbers
    spResult     \* split_pdf: the returned list and the saved document

pipeVars == <<pc, apiResponse, candidates, i, links, summaries, tempExists, files,
              response, summary, exc, fetchLog, kept, produced>>
toolVars == <<pfInput, pfResult, nsInput, nsResult, spInput, spResult>>
vars == <<pipeVars, toolVars>>

----------------------------------------------------------------------------
(* Bounds *)

\* the most items a provider response holds in the model (the request asks
\* for num_results = 5)
MaxItems == 2

\* the most pages (or byte chunks) a document given to process_file has
MaxDocPages == 2

\* the longest page spec enumerated character by character
MaxLen == 3

\* the most pages of a split_pdf source, and the longest page_numbers list
MaxPages == 3
MaxSel == 2

----------------------------------------------------------------------------
(* Values *)

UrlA == <<"example.com", "a.pdf">>
UrlMissing == <<"bad.example", "missing.pdf">>
UrlDir == <<"example.com", "reports", "">>
Urls == {UrlA, UrlMissing, UrlDir}

RECURSIVE SeqsUpTo(_, _)
SeqsUpTo(S, n) ==
    IF n = 0 THEN {<<>>}
    ELSE LET shorter == SeqsUpTo(S, n - 1)
         IN  shorter \cup {Append(s, x) : s \in {t \in shorter : Len(t) = n - 1}, x \in S}

\* an item of the provider's `items` array: with a link field or without one
Items == {[link |-> u, has_link |-> TRUE] : u \in Urls}
            \cup {[link |-> <<>>, has_link |-> FALSE]}

\* what requests.get / response.json() of lines 111-112 can come to: the
\* request raises, the body is no JSON, or the body is a JSON object with or
\* without an `items` array
ApiResponses ==
    {[kind |-> k, has_items |-> FALSE, items |-> <<>>] :
        k \in {"network_error", "not_json", "json"}}
    \cup {[kind |-> "json", has_items |-> TRUE, items |-> s] :
            s \in SeqsUpTo(Items, MaxItems)}

NoResponse == [kind |-> "none", has_items |-> FALSE, items |-> <<>>]

Returned(v) == [raised |-> FALSE, exc |-> "none", value |-> v]
Raised(e) == [raised |-> TRUE, exc |-> e, value |-> <<>>]

EmptyDir == [n \in {} |-> <<>>]
StaleDir == [n \in {"old.pdf"} |-> <<"stale">>]

----------------------------------------------------------------------------
(* find_documents / find_urls *)

\* data.get('items', []) of lines 51 and 114
DataGetItems(data) == IF data.has_items THEN data.items ELSE <<>>

\* the loop of lines 113-115 (50-52 in find_urls): links.append(item['link'])
\* for each item in turn; item['link'] raises KeyError on an item without
\* a link, which ends the call
RECURSIVE ItemLinksFrom(_, _)
ItemLinksFrom(items, acc) ==
    IF items = <<>> THEN Returned(acc)
    ELSE IF ~Head(items).has_link THEN Raised("KeyError")
    ELSE ItemLinksFrom(Tail(items), Append(acc, Head(items).link))

RECURSIVE ItemLinksFromInsert(_, _)
ItemLinksFromInsert(items, acc) ==
    IF items = <<>> THEN Returned(acc)
    ELSE IF ~Head(items).has_link THEN Raised("KeyError")
    ELSE ItemLinksFromInsert(Tail(items), <<Head(items).link>> \o acc)

ItemLinksInserted(items) == ItemLinksFromInsert(items, <<>>)

ItemLinks(items) == ItemLinksFrom(items, <<>>)

\* find_documents with data['items'] in place of data.get('items', [])
FindDocumentsIndexed(resp) ==
    IF resp.kind = "network_error" THEN Raised("RequestException")
    ELSE IF resp.kind = "not_json" THEN Raised("JSONDecodeError")
    ELSE IF ~resp.has_items THEN Raised("KeyError")
    ELSE ItemLinks(resp.items)

\* lines 111-116 (and 47-54): requests.get and response.json() stand outside
\* any try, so what they raise leaves the function
FindDocuments(resp) ==
    IF resp.kind = "network_error" THEN Raised("RequestException")
    ELSE IF resp.kind = "not_json" THEN Raised("JSONDecodeError")
    ELSE ItemLinks(DataGetItems(resp))

----------------------------------------------------------------------------
(* pdf_answerer *)

\* the steps of pdf_answerer that can fail, and "none" when none does
FailPoints == {"none", "init", "read_bytes", "from_data", "generate"}

\* the text the generative model returns for a document
GenerateContent(bytes) == <<"answer to">> \o bytes

\* lines 291-303: vertexai.init stands before the try, the other steps
\* inside it; a failure inside the try returns ""
PdfAnswerer(dir, filename, fail) ==
    IF fail = "init" THEN Raised("InitError")
    ELSE IF fail = "none" /\ filename \in DOMAIN dir
    THEN Returned(GenerateContent(dir[filename]))
    ELSE Returned(<<>>)

----------------------------------------------------------------------------
(* process_file_questions and runner *)

\* os.path.basename(url), line 195: what follows the last "/"
Basename(url) == url[Len(url)]

\* response.content of a fetch that returned a response
Content(url, outcome) == <<outcome>> \o url

\* how requests.get(url) of line 193 can end: a response with a success
\* status, a response with an error status such as 404 (raise_for_status is
\* commented out, line 194), or an exception
FetchOutcomes == {"ok", "http_error", "exception"}

\* lines 200-201 with the answer inserted at the front of summaries
AppendedSwapped(ls, ss, url, s) == <<Append(ls, url), <<s>> \o ss>>

\* lines 200-201
Appended(ls, ss, url, s) == <<Append(ls, url), Append(ss, s)>>

\* lines 197-198: the file `name` of the directory created or overwritten
Put(dir, name, bytes) ==
    [n \in DOMAIN dir \cup {name} |-> IF n = name THEN bytes ELSE dir[n]]

InitPipe ==
    /\ pc = "find_documents"
    /\ apiResponse = NoResponse
    /\ candidates = <<>>
    /\ i = 1
    /\ links = <<>>
    /\ summaries = <<>>
    /\ tempExists \in BOOLEAN
    /\ files = IF tempExists THEN StaleDir ELSE EmptyDir
    /\ response = <<>>
    /\ summary = <<>>
    /\ exc = "none"
    /\ fetchLog = <<>>
    /\ kept = <<>>
    /\ produced = <<>>

NotCalled == [called |-> FALSE, raised |-> FALSE, is_none |-> FALSE, text |-> <<>>]

\* process_file, numbers_split and split_pdf are called by nothing in the
\* pipeline; each is idle in the specifications of the others
IdleProcessFile ==
    /\ pfInput = [kind |-> "path", suffix |-> "", pages |-> <<>>, ok |-> TRUE]
    /\ pfResult = NotCalled

IdleNumbersSplit ==
    /\ nsInput = <<>>
    /\ nsResult = [called |-> FALSE, value |-> <<>>]

IdleSplitPdf ==
    /\ spInput = [page_count |-> 0, page_numbers |-> <<>>, readable |-> TRUE,
                  writable |-> TRUE]
    /\ spResult = [called |-> FALSE, raised |-> FALSE, value |-> <<>>, saved |-> <<>>]

\* runner, line 315: links = find_documents(...)
RunFindDocuments ==
    /\ pc = "find_documents"
    /\ \E resp \in ApiResponses :
         LET r == FindDocuments(resp)
         IN  /\ apiResponse' = resp
             /\ IF r.raised
                THEN /\ pc' = "raised"
                     /\ exc' = r.exc
                     /\ candidates' = candidates
                ELSE /\ pc' = "makedirs"
                     /\ exc' = exc
                     /\ candidates' = r.value
    /\ UNCHANGED <<i, links, summaries, tempExists, files, response, summary,
                   fetchLog, kept, produced, toolVars>>

\* lines 186-190: the lists start empty, 'temp' is removed with what it held
\* and made anew (the removal and os.makedirs are taken to succeed)
MakeTemp ==
    /\ pc = "makedirs"
    /\ links' = <<>>
    /\ summaries' = <<>>
    /\ tempExists' = TRUE
    /\ files' = EmptyDir
    /\ pc' = "loop"
    /\ UNCHANGED <<apiResponse, candidates, i, response, summary, exc, fetchLog,
                   kept, produced, toolVars>>

\* lines 191-193: the next url and requests.get(url)
Fetch ==
    /\ pc = "loop"
    /\ i <= Len(candidates)
    /\ \E outcome \in FetchOutcomes :
         /\ fetchLog' = Append(fetchLog, outcome)
         /\ IF outcome = "exception"
            THEN pc' = "except" /\ response' = response
            ELSE pc' = "fetched" /\ response' = Content(candidates[i], outcome)
    /\ UNCHANGED <<apiResponse, candidates, i, links, summaries, tempExists, files,
                   summary, exc, kept, produced, toolVars>>

\* lines 195-198: open(filepath, 'wb') and the write; with an empty basename
\* filepath is the directory itself and open raises
WriteFile ==
    /\ pc = "fetched"
    /\ IF Basename(candidates[i]) = ""
       THEN pc' = "except" /\ files' = files
       ELSE pc' = "written" /\ files' = Put(files, Basename(candidates[i]), response)
    /\ UNCHANGED <<apiResponse, candidates, i, links, summaries, tempExists,
                   response, summary, exc, fetchLog, kept, produced, toolVars>>

\* line 199: summary = pdf_answerer(question, filepath, ...)
Answer ==
    /\ pc = "written"
    /\ \E fail \in FailPoints :
         LET r == PdfAnswerer(files, Basename(candidates[i]), fail)
         IN  /\ produced' = Append(produced, [at |-> i, fail |-> fail, result |-> r])
             /\ IF r.raised
                THEN pc' = "except" /\ summary' = summary
                ELSE pc' = "answered" /\ summary' = r.value
    /\ UNCHANGED <<apiResponse, candidates, i, links, summaries, tempExists, files,
                   response, exc, fetchLog, kept, toolVars>>

\* lines 200-201, the end of an iteration that raised nothing
AppendResult ==
    /\ pc = "answered"
    /\ links' = Appended(links, summaries, candidates[i], summary)[1]
    /\ summaries' = Appended(links, summaries, candidates[i], summary)[2]
    /\ kept' = Append(kept, i)
    /\ i' = i + 1
    /\ pc' = "loop"
    /\ UNCHANGED <<apiResponse, candidates, tempExists, files, response, summary,
                   exc, fetchLog, produced, toolVars>>

\* lines 202-203: the bare except prints; the print itself (writing to
\* stdout) is outside every try, and what it raises leaves the function
Except ==
    /\ pc = "except"
    /\ \E printed \in BOOLEAN :
         IF printed
         THEN pc' = "loop" /\ i' = i + 1 /\ exc' = exc
         ELSE pc' = "raised" /\ i' = i /\ exc' = "OSError"
    /\ UNCHANGED <<apiResponse, candidates, links, summaries, tempExists, files,
                   response, summary, fetchLog, kept, produced, toolVars>>

\* lines 204-205: shutil.rmtree(path), taken to succeed, and
\* return links, summaries; reached only when the loop ran to its end
RemoveTempAndReturn ==
    /\ pc = "loop"
    /\ i > Len(candidates)
    /\ tempExists' = FALSE
    /\ files' = EmptyDir
    /\ pc' = "returned"
    /\ UNCHANGED <<apiResponse, candidates, i, links, summaries, response, summary,
                   exc, fetchLog, kept, produced, toolVars>>

Init == InitPipe /\ IdleProcessFile /\ IdleNumbersSplit /\ IdleSplitPdf

Next ==
    \/ RunFindDocuments
    \/ MakeTemp
    \/ Fetch
    \/ WriteFile
    \/ Answer
    \/ AppendResult
    \/ Except
    \/ RemoveTempAndReturn

Spec == Init /\ [][Next]_vars

----------------------------------------------------------------------------
(* Properties of the pipeline, checked under Spec *)

\* process_file_questions has stopped: it returned, or an exception left it
\* (the only one that can is raised by the handler of line 203)
Stopped == pc = "returned" \/ (pc = "raised" /\ exc = "OSError")

RECURSIVE IsSubsequence(_, _)
IsSubsequence(s, t) ==
    IF s = <<>> THEN TRUE
    ELSE IF t = <<>> THEN FALSE
    ELSE IF Head(s) = Head(t) THEN IsSubsequence(Tail(s), Tail(t))
    ELSE IsSubsequence(s, Tail(t))

\* C1: a candidate whose fetch failed, by an exception or by an HTTP error
\* status such as 404, contributes no entry to the output: every entry of a
\* returned result comes from a fetch that succeeded, and for candidates
\* [a, missing] with the fetch of a succeeding and that of missing ending in
\* 404 the result does not hold both URLs.
C1_FailedFetchContributesNothing ==
    pc = "returned" =>
        /\ \A k \in 1..Len(kept) : fetchLog[kept[k]] = "ok"
        /\ (candidates = <<UrlA, UrlMissing>> /\ fetchLog = <<"ok", "http_error">>)
              => (links # <<UrlA, UrlMissing>> /\ Len(summaries) < 2)

\* C2: every candidate whose fetch succeeded is in the returned output,
\* paired with the answer pdf_answerer produced for it (the empty string when
\* answering failed); neither a failed write nor a failed answering step
\* omits it.
C2_FetchedUrlIsEmitted ==
    pc = "returned" =>
        \A j \in 1..Len(candidates) :
            fetchLog[j] = "ok" =>
                \E k \in 1..Len(links) :
                    /\ kept[k] = j
                    /\ links[k] = candidates[j]
                    /\ \E p \in 1..Len(produced) :
                          produced[p].at = j /\ summaries[k] = produced[p].result.value

\* C3: pdf_answerer never raises: whichever of its steps fails, the call
\* returns the empty string.
C3_AnswererNeverRaises ==
    \A p \in 1..Len(produced) :
        /\ ~produced[p].result.raised
        /\ produced[p].fail # "none" => produced[p].result.value = <<>>

\* C4: whenever process_file_questions has stopped, by returning or by an
\* exception raised after 'temp' was made, 'temp' no longer exists.
C4_TempRemovedOnEveryExit == Stopped => ~tempExists

\* C5: after every iteration and at return the two output lists have the
\* same length, the URL list is an order-preserving subsequence of the
\* candidates (so no longer than them), and the answer at each index is the
\* one pdf_answerer returned for the URL at that index.
C5_OutputsAligned ==
    pc \in {"loop", "returned"} =>
        /\ Len(links) = Len(summaries)
        /\ Len(links) <= Len(candidates)
        /\ IsSubsequence(links, candidates)
        /\ Len(kept) = Len(links)
        /\ \A k \in 1..Len(links) :
              /\ kept[k] \in 1..Len(candidates)
              /\ k > 1 => kept[k - 1] < kept[k]
              /\ links[k] = candidates[kept[k]]
              /\ \E p \in 1..Len(produced) :
                    /\ produced[p].at = kept[k]
                    /\ ~produced[p].result.raised
                    /\ summaries[k] = produced[p].result.value

\* a run that returned two entries with different answers, one of them empty
C5_Witness ==
    /\ pc = "returned"
    /\ Len(links) = 2
    /\ summaries[1] # summaries[2]
    /\ summaries[2] = <<>>

SearchFailed == apiResponse.kind \in {"network_error", "not_json"}

LinkedPositions(items) == {n \in 1..Len(items) : items[n].has_link}
NthOf(S, k) == CHOOSE n \in S : Cardinality({m \in S : m <= n}) = k

\* C7 as stated: for every provider response the result is exactly the links
\* of the items that have one, in provider order; an item without a link is
\* skipped.
C7_LinklessItemsSkipped ==
    (apiResponse.kind = "json" /\ pc # "find_documents") =>
        LET items == DataGetItems(apiResponse)
            at == LinkedPositions(items)
        IN  /\ exc = "none"
            /\ Len(candidates) = Cardinality(at)
            /\ \A k \in 1..Len(candidates) : candidates[k] = items[NthOf(at, k)].link

\* C7 amended: when every item has a link the result is the items' links in
\* provider order; an item without a link is not skipped: it makes the call
\* raise KeyError, and no link at all is returned.
C7_LinklessItemRaises ==
    (apiResponse.kind = "json" /\ pc # "find_documents") =>
        LET items == DataGetItems(apiResponse)
        IN  IF \A n \in 1..Len(items) : items[n].has_link
            THEN /\ pc # "raised" \/ exc = "OSError"
                 /\ Len(candidates) = Len(items)
                 /\ \A n \in 1..Len(items) : candidates[n] = items[n].link
            ELSE /\ pc = "raised"
                 /\ exc = "KeyError"
                 /\ candidates = <<>>

\* a response whose second item lacks a link, after a first one that has one
C7_Witness ==
    /\ pc = "raised"
    /\ Len(apiResponse.items) = 2
    /\ apiResponse.items[1].has_link
    /\ ~apiResponse.items[2].has_link

----------------------------------------------------------------------------
(* process_file and read_pdf *)

IdlePipe ==
    /\ pc = "idle"
    /\ apiResponse = NoResponse
    /\ candidates = <<>>
    /\ i = 1
    /\ links = <<>>
    /\ summaries = <<>>
    /\ tempExists = FALSE
    /\ files = EmptyDir
    /\ response = <<>>
    /\ summary = <<>>
    /\ exc = "none"
    /\ fetchLog = <<>>
    /\ kept = <<>>
    /\ produced = <<>>

\* the suffixes line 162 hands to textract
TextractSuffixes ==
    {".docx", ".csv", ".epub", ".json", ".html", ".odt", ".pptx", ".txt", ".rtf"}

Suffixes == {".pdf"} \cup TextractSuffixes \cup {".xlsx", ".PDF", ""}

\* what a page's text layer, or a chunk of textract's output, can be; "xFF"
\* stands for bytes that are no UTF-8
Chunks == {"Turnout: 54%", "xFF"}

\* the `file` argument: a path string, bytes or a byte buffer (the docstring,
\* line 147, names all three); for a path, its suffix, the document's pages
\* or chunks, and whether the reader works on it
FileInputs ==
    [kind : {"path", "bytes", "buffer"}, suffix : Suffixes,
     pages : SeqsUpTo(Chunks, MaxDocPages), ok : BOOLEAN]

\* lines 135-140: text += "\n" + page text, page by page
RECURSIVE ReadPdfText(_)
ReadPdfText(pages) ==
    IF pages = <<>> THEN <<>>
    ELSE <<"\n", Head(pages)>> \o ReadPdfText(Tail(pages))

\* line 164: decode('utf_8', errors="ignore") drops what is no UTF-8
Decode(chunks) == SelectSeq(chunks, LAMBDA c : c # "xFF")

TextResult(x) == [called |-> TRUE, raised |-> FALSE, is_none |-> FALSE, text |-> x]
NoneResult == [called |-> TRUE, raised |-> FALSE, is_none |-> TRUE, text |-> <<>>]
RaisedResult == [called |-> TRUE, raised |-> TRUE, is_none |-> FALSE, text |-> <<>>]

\* lines 158-166: pathlib.Path(file) stands before the try and raises
\* TypeError on bytes and on a byte buffer; inside the try a reader that
\* fails falls to `except: pass`, and the function returns None; so it does
\* for a suffix of neither branch
ProcessFileResult(file) ==
    IF file.kind # "path" THEN RaisedResult
    ELSE IF file.suffix = ".pdf"
         THEN IF file.ok THEN TextResult(ReadPdfText(file.pages)) ELSE NoneResult
    ELSE IF file.suffix \in TextractSuffixes
         THEN IF file.ok THEN TextResult(Decode(file.pages)) ELSE NoneResult
    ELSE NoneResult

InitExtract ==
    /\ IdlePipe
    /\ pfInput \in FileInputs
    /\ pfResult = NotCalled
    /\ IdleNumbersSplit
    /\ IdleSplitPdf

ProcessFile ==
    /\ ~pfResult.called
    /\ pfResult' = ProcessFileResult(pfInput)
    /\ UNCHANGED <<pipeVars, pfInput, nsInput, nsResult, spInput, spResult>>

NextExtract == ProcessFile

SpecExtract == InitExtract /\ [][NextExtract]_vars

\* C8: process_file never lets an exception reach its caller: for a path
\* string, bytes or a byte buffer, whatever the extension and however the
\* readers fare, the call ends with the text or with no text.
C8_ExtractorNeverRaises == pfResult.called => ~pfResult.raised

----------------------------------------------------------------------------
(* numbers_split *)

DigitChars == <<"0", "1", "2", "3", "4", "5", "6", "7", "8", "9">>

\* the characters \d matches, so that \D matches every other one
DecimalDigits == {DigitChars[n] : n \in 1..10}

\* "sup2" stands for a superscript two: str.isdigit accepts it, \d does not
\* match it and int() rejects it
IsDigitChars == DecimalDigits \cup {"sup2"}

DigitValue(c) == (CHOOSE n \in 1..10 : DigitChars[n] = c) - 1

\* re.split(r'\D+', s), line 225: s cut at every maximal run of characters
\* that are no decimal digits; the pieces before a leading run and after a
\* trailing one are empty strings. `cur` is the piece being read, `sep`
\* whether the last character read belongs to a separator run.
RECURSIVE ReSplitFrom(_, _, _, _)
ReSplitFrom(s, cur, sep, acc) ==
    IF s = <<>> THEN Append(acc, cur)
    ELSE IF Head(s) \in DecimalDigits
         THEN ReSplitFrom(Tail(s), Append(cur, Head(s)), FALSE, acc)
    ELSE IF sep THEN ReSplitFrom(Tail(s), cur, TRUE, acc)
    ELSE ReSplitFrom(Tail(s), <<>>, TRUE, Append(acc, cur))

ReSplit(s) == ReSplitFrom(s, <<>>, FALSE, <<>>)

\* part.isdigit(), line 226: false for the empty string
IsDigit(part) == part # <<>> /\ \A n \in 1..Len(part) : part[n] \in IsDigitChars

\* int(part), line 226
RECURSIVE IntFrom(_, _)
IntFrom(part, acc) ==
    IF part = <<>> THEN acc
    ELSE IntFrom(Tail(part), 10 * acc + DigitValue(Head(part)))

ToInt(part) == IntFrom(part, 0)

\* numbers_split with the zero test applied after the decrement
NumbersSplitLate(s) ==
    LET digits == SelectSeq(ReSplit(s), IsDigit)
        parts == [n \in 1..Len(digits) |-> ToInt(digits[n])]
        less == [n \in 1..Len(parts) |-> parts[n] - 1]
    IN  SelectSeq(less, LAMBDA num : num # 0)

\* lines 225-228: the split, the two list comprehensions
NumbersSplit(s) ==
    LET digits == SelectSeq(ReSplit(s), IsDigit)
        parts == [n \in 1..Len(digits) |-> ToInt(digits[n])]
        nonzero == SelectSeq(parts, LAMBDA num : num # 0)
    IN  [n \in 1..Len(nonzero) |-> nonzero[n] - 1]

\* the characters page specs are enumerated over
SpecChars == {"0", "1", "2", ".", "sup2"}

\* the docstring's examples, lines 214-223
ExampleCommas == <<"1", ",", " ", "2", ",", " ", "3", ",", " ", "4">>
ExampleLetters == <<"a", "1", "b", "2", "c", "3">>
ExampleNoNumbers ==
    <<"n", "o", " ", "n", "u", "m", "b", "e", "r", "s", " ", "h", "e", "r", "e">>
ExampleLong == <<"a", "b", "c", "1", "2", "3", "d", "e", "f", "4", "5", "6">>
ExampleDecimals ==
    <<"1", "0", ".", "5", " ", "a", "n", "d", " ", "1", "1", ".", "0">>
Examples ==
    {ExampleCommas, ExampleLetters, ExampleNoNumbers, ExampleLong, ExampleDecimals}

InitParse ==
    /\ IdlePipe
    /\ IdleProcessFile
    /\ nsInput \in SeqsUpTo(SpecChars, MaxLen) \cup Examples
    /\ nsResult = [called |-> FALSE, value |-> <<>>]
    /\ IdleSplitPdf

CallNumbersSplit ==
    /\ ~nsResult.called
    /\ nsResult' = [called |-> TRUE, value |-> NumbersSplit(nsInput)]
    /\ UNCHANGED <<pipeVars, pfInput, pfResult, nsInput, spInput, spResult>>

NextParse == CallNumbersSplit

SpecParse == InitParse /\ [][NextParse]_vars

\* where the maximal runs of decimal digits of s start, where the run that
\* starts at k ends, and the integer it spells
RunStarts(s) ==
    {k \in 1..Len(s) : s[k] \in DecimalDigits /\ (k = 1 \/ s[k - 1] \notin DecimalDigits)}
RunEnd(s, k) ==
    CHOOSE e \in k..Len(s) :
        /\ \A m \in k..e : s[m] \in DecimalDigits
        /\ e = Len(s) \/ s[e + 1] \notin DecimalDigits
RECURSIVE Pow10(_)
Pow10(n) == IF n = 0 THEN 1 ELSE 10 * Pow10(n - 1)
RECURSIVE SumOver(_, _)
SumOver(S, f) ==
    IF S = {} THEN 0 ELSE LET x == CHOOSE y \in S : TRUE IN f[x] + SumOver(S \ {x}, f)
RunValue(s, k) ==
    LET e == RunEnd(s, k)
    IN  SumOver(k..e, [m \in k..e |-> DigitValue(s[m]) * Pow10(e - m)])

\* C9: numbers_split returns, in order of appearance, n - 1 for each maximal
\* run of digits whose value n is not zero and nothing for a run of value
\* zero; so every index is >= 0 and duplicates are kept; the docstring's
\* examples give [0,1,2,3], [] and [9,4,10].
C9_NumbersSplit ==
    nsResult.called =>
        LET s == nsInput
            out == nsResult.value
            nz == {k \in RunStarts(s) : RunValue(s, k) # 0}
        IN  /\ Len(out) = Cardinality(nz)
            /\ \A k \in 1..Len(out) : out[k] = RunValue(s, NthOf(nz, k)) - 1
            /\ \A k \in 1..Len(out) : out[k] >= 0
            /\ s = ExampleCommas => out = <<0, 1, 2, 3>>
            /\ s = ExampleNoNumbers => out = <<>>
            /\ s = ExampleDecimals => out = <<9, 4, 10>>

\* the call on '10.5 and 11.0': a run of value zero is dropped and the
\* decimal point splits 10.5 in two
C9_Witness ==
    nsResult.called /\ nsInput = ExampleDecimals /\ nsResult.value = <<9, 4, 10>>

----------------------------------------------------------------------------
(* split_pdf *)

\* the source document: page n of it is the n-th element, named by its
\* 0-based index
SourcePages(len_pdf) == [n \in 1..len_pdf |-> n - 1]

\* the filter with 1-based bounds
FilterPagesOneBased(page_numbers, len_pdf) ==
    SelectSeq(page_numbers, LAMBDA page : 0 < page /\ page < len_pdf)

\* line 246: [page for page in page_numbers if 0 <= page < len_pdf]
FilterPages(page_numbers, len_pdf) ==
    SelectSeq(page_numbers, LAMBDA page : 0 <= page /\ page < len_pdf)

\* line 251: new_pdf.import_pages(pdf, page_numbers, 0) on the empty new_pdf:
\* the pages of pdf at the given 0-based indices, in the given order
ImportPages(pdf, page_numbers) ==
    [k \in 1..Len(page_numbers) |-> pdf[page_numbers[k] + 1]]

\* lines 244-253: opening the source and saving the new document can raise
SplitPdf(in) ==
    IF ~in.readable
    THEN [called |-> TRUE, raised |-> TRUE, value |-> <<>>, saved |-> <<>>]
    ELSE LET page_numbers == FilterPages(in.page_numbers, in.page_count)
             new_pdf == ImportPages(SourcePages(in.page_count), page_numbers)
         IN  IF ~in.writable
             THEN [called |-> TRUE, raised |-> TRUE, value |-> <<>>, saved |-> <<>>]
             ELSE [called |-> TRUE, raised |-> FALSE, value |-> page_numbers,
                   saved |-> new_pdf]

SplitInputs ==
    [page_count : 0..MaxPages,
     page_numbers : SeqsUpTo(-1..(MaxPages + 2), MaxSel),
     readable : BOOLEAN, writable : BOOLEAN]

InitSplit ==
    /\ IdlePipe
    /\ IdleProcessFile
    /\ IdleNumbersSplit
    /\ spInput \in SplitInputs
    /\ spResult = [called |-> FALSE, raised |-> FALSE, value |-> <<>>, saved |-> <<>>]

CallSplitPdf ==
    /\ ~spResult.called
    /\ spResult' = SplitPdf(spInput)
    /\ UNCHANGED <<pipeVars, pfInput, pfResult, nsInput, nsResult, spInput>>

NextSplit == CallSplitPdf

SpecSplit == InitSplit /\ [][NextSplit]_vars

============================================================================
